---- MODULE Spec2Model ----
(***************************************************************************)
(* KDynamicWallpaperWriter (src/lib/kdynamicwallpaperwriter.cpp): a writer  *)
(* that packs a list of images and a list of metadata records into one     *)
(* AVIF container.  The model follows the writer's private state, the      *)
(* device it writes to, the libavif objects it creates and destroys, and   *)
(* the bytes of the XMP block it attaches to every frame.                  *)
(***************************************************************************)
EXTENDS Integers, Sequences, FiniteSets, TLC

(***************************************************************************)
(* Bounds of the model.                                                    *)
(***************************************************************************)
MaxLen == 2        \* longest list handed to setImages / setMetaData

(***************************************************************************)
(* Bytes.  A byte is a one-character string; Ord gives its ASCII code.     *)
(* Code 96 is never written by the program and has a placeholder entry.    *)
(***************************************************************************)
Ascii ==
  << " ", "!", "\"", "#", "$", "%", "&", "'", "(", ")", "*", "+", ",", "-", ".", "/",
     "0", "1", "2", "3", "4", "5", "6", "7", "8", "9", ":", ";", "<", "=", ">", "?",
     "@", "A", "B", "C", "D", "E", "F", "G", "H", "I", "J", "K", "L", "M", "N", "O",
     "P", "Q", "R", "S", "T", "U", "V", "W", "X", "Y", "Z", "[", "\\", "]", "^", "_",
     "GRAVE", "a", "b", "c", "d", "e", "f", "g", "h", "i", "j", "k", "l", "m", "n", "o",
     "p", "q", "r", "s", "t", "u", "v", "w", "x", "y", "z", "{", "|", "}", "~" >>

AsciiCode == [ c \in { Ascii[i] : i \in 1..Len(Ascii) } |->
                 31 + (CHOOSE i \in 1..Len(Ascii) : Ascii[i] = c) ]

Ord(c) == AsciiCode[c]

Chr(n) == Ascii[n - 31]

Digits == << "0", "1", "2", "3", "4", "5", "6", "7", "8", "9" >>

\* The parts of ss joined by sep.
RECURSIVE Join(_, _)
Join(ss, sep) ==
  IF ss = << >> THEN << >>
  ELSE IF Len(ss) = 1 THEN ss[1]
  ELSE ss[1] \o sep \o Join(Tail(ss), sep)

IsPrefixAt(pat, s, i) ==
  /\ i + Len(pat) - 1 <= Len(s)
  /\ \A k \in 1..Len(pat) : s[i + k - 1] = pat[k]

\* QByteArray::replace(before, after): every occurrence of before, found
\* left to right in the original bytes, becomes after.
RECURSIVE ReplaceFrom(_, _, _, _)
ReplaceFrom(s, i, before, after) ==
  IF i > Len(s) THEN << >>
  ELSE IF IsPrefixAt(before, s, i)
       THEN after \o ReplaceFrom(s, i + Len(before), before, after)
       ELSE << s[i] >> \o ReplaceFrom(s, i + 1, before, after)

Replace(s, before, after) == ReplaceFrom(s, 1, before, after)

(***************************************************************************)
(* QByteArray::toBase64(): three bytes become four characters of the       *)
(* standard alphabet; a last group of one or two bytes is padded with '='. *)
(***************************************************************************)
Base64Alphabet ==
  << "A", "B", "C", "D", "E", "F", "G", "H", "I", "J", "K", "L", "M", "N", "O", "P",
     "Q", "R", "S", "T", "U", "V", "W", "X", "Y", "Z", "a", "b", "c", "d", "e", "f",
     "g", "h", "i", "j", "k", "l", "m", "n", "o", "p", "q", "r", "s", "t", "u", "v",
     "w", "x", "y", "z", "0", "1", "2", "3", "4", "5", "6", "7", "8", "9", "+", "/" >>

Sextet(n) == Base64Alphabet[n + 1]

RECURSIVE ToBase64(_)
ToBase64(s) ==
  IF s = << >> THEN << >>
  ELSE IF Len(s) = 1 THEN
    LET a == Ord(s[1]) IN
      << Sextet(a \div 4), Sextet((a % 4) * 16), "=", "=" >>
  ELSE IF Len(s) = 2 THEN
    LET a == Ord(s[1])
        b == Ord(s[2]) IN
      << Sextet(a \div 4), Sextet((a % 4) * 16 + b \div 16),
         Sextet((b % 16) * 4), "=" >>
  ELSE
    LET a == Ord(s[1])
        b == Ord(s[2])
        c == Ord(s[3]) IN
      << Sextet(a \div 4), Sextet((a % 4) * 16 + b \div 16),
         Sextet((b % 16) * 4 + c \div 64), Sextet(c % 64) >>
      \o ToBase64(SubSeq(s, 4, Len(s)))

(***************************************************************************)
(* KDynamicWallpaperMetaData.  A record keeps a value for every field and  *)
(* the set of fields that were set (kdynamicwallpapermetadata.h).          *)
(***************************************************************************)
MetaDataField ==
  { "CrossFadeField", "TimeField", "SolarAzimuthField", "SolarElevationField",
    "IndexField" }

CrossFadeMode == { "NoCrossFade", "CrossFade" }

MakeMetaData(fields, mode, time, elevation, azimuth, index) ==
  [ presentFields |-> fields, crossFadeMode |-> mode, time |-> time,
    solarElevation |-> elevation, solarAzimuth |-> azimuth, index |-> index ]

fields(md) == md.presentFields

isValid(md) == fields(md) # {}

\* JSON values: a boolean (n is 0 or 1) or a number.
JsonBool(b) == [ t |-> "bool", n |-> IF b THEN 1 ELSE 0 ]
JsonNumber(n) == [ t |-> "num", n |-> n ]

\* The keys of a JSON object in the order QJsonObject keeps them (sorted).
JsonKeys == << "CrossFade", "Index", "SolarAzimuth", "SolarElevation", "Time" >>

KeyField(k) ==
  CASE k = "CrossFade" -> "CrossFadeField"
    [] k = "Index" -> "IndexField"
    [] k = "SolarAzimuth" -> "SolarAzimuthField"
    [] k = "SolarElevation" -> "SolarElevationField"
    [] k = "Time" -> "TimeField"

\* toJson(): an object holding exactly the keys of the fields that are set.
toJson(md) ==
  [ k \in { k \in { JsonKeys[i] : i \in 1..Len(JsonKeys) } : KeyField(k) \in fields(md) } |->
      CASE k = "CrossFade" -> JsonBool(md.crossFadeMode = "CrossFade")
        [] k = "Index" -> JsonNumber(md.index)
        [] k = "SolarAzimuth" -> JsonNumber(md.solarAzimuth)
        [] k = "SolarElevation" -> JsonNumber(md.solarElevation)
        [] k = "Time" -> JsonNumber(md.time) ]

(***************************************************************************)
(* QJsonDocument::toJson(Compact): the text of an array of objects with no *)
(* white space, keys in sorted order.                                      *)
(***************************************************************************)
KeyBytes(k) ==
  CASE k = "CrossFade" -> << "C", "r", "o", "s", "s", "F", "a", "d", "e" >>
    [] k = "Index" -> << "I", "n", "d", "e", "x" >>
    [] k = "SolarAzimuth" ->
         << "S", "o", "l", "a", "r", "A", "z", "i", "m", "u", "t", "h" >>
    [] k = "SolarElevation" ->
         << "S", "o", "l", "a", "r", "E", "l", "e", "v", "a", "t", "i", "o", "n" >>
    [] k = "Time" -> << "T", "i", "m", "e" >>

RECURSIVE NatBytes(_)
NatBytes(n) ==
  IF n < 10 THEN << Digits[n + 1] >>
  ELSE NatBytes(n \div 10) \o << Digits[(n % 10) + 1] >>

NumberBytes(n) == IF n < 0 THEN << "-" >> \o NatBytes(0 - n) ELSE NatBytes(n)

ValueBytes(v) ==
  IF v.t = "bool"
  THEN IF v.n = 1 THEN << "t", "r", "u", "e" >> ELSE << "f", "a", "l", "s", "e" >>
  ELSE NumberBytes(v.n)

PresentKeys(obj) == SelectSeq(JsonKeys, LAMBDA k : k \in DOMAIN obj)

ObjectBytes(obj) ==
  LET keys == PresentKeys(obj)
      pair(k) == << "\"" >> \o KeyBytes(k) \o << "\"", ":" >> \o ValueBytes(obj[k])
  IN  << "{" >> \o Join([ i \in 1..Len(keys) |-> pair(keys[i]) ], << "," >>) \o << "}" >>

CompactJson(array) ==
  << "[" >> \o Join([ i \in 1..Len(array) |-> ObjectBytes(array[i]) ], << "," >>)
         \o << "]" >>

(***************************************************************************)
(* The XMP block.  The template is the resource                            *)
(* :/kdynamicwallpaper/xmp/metadata.xml, a fixed XML text that holds the   *)
(* placeholder "base64" once.                                              *)
(***************************************************************************)
Placeholder == << "b", "a", "s", "e", "6", "4" >>

TemplatePrefix == << "<", "x", " ", "d", "=", "\"" >>

TemplateSuffix == << "\"", "/", ">" >>

MetaDataTemplate == TemplatePrefix \o Placeholder \o TemplateSuffix

\* serializeMetaData with every record dropped that is not valid.
serializeValidMetaData(metaData) ==
  LET kept == SelectSeq(metaData, isValid)
      array == [ i \in 1..Len(kept) |-> toJson(kept[i]) ]
  IN  Replace(MetaDataTemplate, Placeholder, ToBase64(CompactJson(array)))

serializeMetaData(metaData) ==
  LET array == [ i \in 1..Len(metaData) |-> toJson(metaData[i]) ]
      base64 == ToBase64(CompactJson(array))
      xmp == MetaDataTemplate
  IN  Replace(xmp, Placeholder, base64)

(***************************************************************************)
(* QIODevice.  openMode is the set of open-mode flags (empty: NotOpen);    *)
(* openable tells whether open(WriteOnly) will succeed; written is the     *)
(* list of byte blocks handed to write().                                  *)
(***************************************************************************)
OpenModeFlag == { "ReadOnly", "WriteOnly" }

isOpen(device) == device.openMode # {}

isWritable(device) == "WriteOnly" \in device.openMode

DeviceOpenError == "Permission denied"

\* open(QIODevice::WriteOnly): the device after the call and the result.
open(device) ==
  IF device.openable
  THEN [ ok |-> TRUE, device |-> [ device EXCEPT !.openMode = { "WriteOnly" } ] ]
  ELSE [ ok |-> FALSE, device |-> [ device EXCEPT !.errorString = DeviceOpenError ] ]

write(device, bytes) == [ device EXCEPT !.written = Append(@, bytes) ]

\* QFile file(fileName): a device that is not open yet.
QFile(fs, fileName) ==
  [ openMode |-> {}, openable |-> fs[fileName].writable, errorString |-> "Unknown error",
    written |-> << >> ]

(***************************************************************************)
(* libavif.  A handle names an object the library allocated; heap is the   *)
(* record of the handles created and destroyed during one call.            *)
(***************************************************************************)
EncoderHandle == << "avifEncoder", 0 >>

OutputHandle == << "avifRWData", 0 >>

ImageHandle(i) == << "avifImage", i >>

EmptyHeap == [ created |-> << >>, destroyed |-> << >> ]

Create(heap, h) == [ heap EXCEPT !.created = Append(@, h) ]

Destroy(heap, h) == [ heap EXCEPT !.destroyed = Append(@, h) ]

RECURSIVE DestroyAll(_, _)
DestroyAll(heap, hs) ==
  IF hs = << >> THEN heap ELSE DestroyAll(Destroy(heap, Head(hs)), Tail(hs))

\* What one image can meet in the loop: both calls succeed, avifImageRGBToYUV
\* fails, or avifEncoderAddImage fails.
FrameOutcome == { "ok", "convertFailed", "addFailed" }

\* The container avifEncoderFinish produces from the frames it was given.
Container(frames) == [ signature |-> "ftypavis", frames |-> frames ]

\* avifEncoderFinish: no frame gives "No content"; otherwise the container,
\* unless the encoder meets the fault.
avifEncoderFinish(frames, fault) ==
  IF frames = << >> THEN [ result |-> "No content", output |-> << >> ]
  ELSE IF fault # "none" THEN [ result |-> fault, output |-> << >> ]
  ELSE [ result |-> "OK", output |-> Container(frames) ]

(***************************************************************************)
(* QImage: the picture (id) and its pixel format.                          *)
(***************************************************************************)
convertToFormat(image, format) == [ image EXCEPT !.format = format ]

(***************************************************************************)
(* KDynamicWallpaperWriterPrivate.                                         *)
(***************************************************************************)
WallpaperWriterError == { "NoError", "DeviceError", "EncoderError" }

\* The constructor.
KDynamicWallpaperWriterPrivate ==
  [ wallpaperWriterError |-> "NoError", errorString |-> "", images |-> << >>,
    metaData |-> << >> ]

\* What the frame loop has done so far: the avifImages it built and gave to
\* avifImageRGBToYUV (converted), the positions of those it gave to
\* avifEncoderAddImage (handed) and of those the encoder took (accepted),
\* the frames the encoder holds, and the local list avifImages.
LoopStart(heap) ==
  [ heap |-> heap, converted |-> << >>, handed |-> << >>, accepted |-> << >>,
    frames |-> << >>, avifImages |-> << >> ]

\* The loop body without the avifImageDestroy of line 87.
FrameStepLeak(acc, image, i, xmp, outcome) ==
  LET avif == [ pixels |-> image, depth |-> 8, format |-> "YUV444", xmp |-> xmp ]
      made == [ acc EXCEPT !.heap = Create(@, ImageHandle(i)),
                           !.converted = Append(@, avif) ]
  IN  IF outcome = "convertFailed"
      THEN made
      ELSE IF outcome = "addFailed"
      THEN [ made EXCEPT !.handed = Append(@, i),
                         !.heap = Destroy(@, ImageHandle(i)) ]
      ELSE [ made EXCEPT !.handed = Append(@, i),
                         !.accepted = Append(@, i),
                         !.frames = Append(@, avif),
                         !.avifImages = Append(@, ImageHandle(i)) ]

\* The loop body that attaches the block to the first frame only.
FrameStepFirstOnly(acc, image, i, xmp, outcome) ==
  LET avif == [ pixels |-> image, depth |-> 8, format |-> "YUV444",
                xmp |-> IF i = 1 THEN xmp ELSE << >> ]
      made == [ acc EXCEPT !.heap = Create(@, ImageHandle(i)),
                           !.converted = Append(@, avif) ]
  IN  IF outcome = "convertFailed"
      THEN [ made EXCEPT !.heap = Destroy(@, ImageHandle(i)) ]
      ELSE IF outcome = "addFailed"
      THEN [ made EXCEPT !.handed = Append(@, i),
                         !.heap = Destroy(@, ImageHandle(i)) ]
      ELSE [ made EXCEPT !.handed = Append(@, i),
                         !.accepted = Append(@, i),
                         !.frames = Append(@, avif),
                         !.avifImages = Append(@, ImageHandle(i)) ]

\* One pass of the loop body for images[i].
FrameStep(acc, image, i, xmp, outcome) ==
  LET avif == [ pixels |-> image, depth |-> 8, format |-> "YUV444", xmp |-> xmp ]
      made == [ acc EXCEPT !.heap = Create(@, ImageHandle(i)),
                           !.converted = Append(@, avif) ]
  IN  IF outcome = "convertFailed"
      THEN [ made EXCEPT !.heap = Destroy(@, ImageHandle(i)) ]
      ELSE IF outcome = "addFailed"
      THEN [ made EXCEPT !.handed = Append(@, i),
                         !.heap = Destroy(@, ImageHandle(i)) ]
      ELSE [ made EXCEPT !.handed = Append(@, i),
                         !.accepted = Append(@, i),
                         !.frames = Append(@, avif),
                         !.avifImages = Append(@, ImageHandle(i)) ]

RECURSIVE FrameLoop(_, _, _, _, _)
FrameLoop(images, xmp, outcome, i, acc) ==
  IF i > Len(images) THEN acc
  ELSE FrameLoop(images, xmp, outcome, i + 1,
                 FrameStep(acc, images[i], i, xmp, outcome[i]))

\* The loop with break where the code has continue.
RECURSIVE FrameLoopUntilFailure(_, _, _, _, _)
FrameLoopUntilFailure(images, xmp, outcome, i, acc) ==
  IF i > Len(images) THEN acc
  ELSE IF outcome[i] # "ok" THEN FrameStep(acc, images[i], i, xmp, outcome[i])
  ELSE FrameLoopUntilFailure(images, xmp, outcome, i + 1,
                             FrameStep(acc, images[i], i, xmp, outcome[i]))

encodeFramesUntilFailure(images, xmp, outcome, heap) ==
  FrameLoopUntilFailure(images, xmp, outcome, 1, LoopStart(heap))

\* The loop of lines 70-98 over all stored images.
encodeFrames(images, xmp, outcome, heap) ==
  FrameLoop(images, xmp, outcome, 1, LoopStart(heap))

\* The record of one call of the private flush.
NoTrace ==
  [ ran |-> FALSE, xmp |-> << >>, converted |-> << >>, handed |-> << >>,
    accepted |-> << >>, finish |-> "not run", heap |-> EmptyHeap ]

\* Lines 100-113 with the write outside the test of the result.
FinishFlushWriteAlways(p, device, xmp, loop, fin) ==
  LET heap == DestroyAll(
                Destroy(Destroy(Create(loop.heap, OutputHandle), OutputHandle),
                        EncoderHandle),
                loop.avifImages)
  IN  [ d |-> IF fin.result = "OK" THEN p
              ELSE [ p EXCEPT !.wallpaperWriterError = "EncoderError",
                              !.errorString = fin.result ],
        device |-> write(device, fin.output),
        trace |-> [ ran |-> TRUE, xmp |-> xmp, converted |-> loop.converted,
                    handed |-> loop.handed, accepted |-> loop.accepted,
                    finish |-> fin.result, heap |-> heap ] ]

\* Lines 100-113: write the output or record the encoder's error, then free
\* the output, the encoder and the images the encoder accepted.
FinishFlush(p, device, xmp, loop, fin) ==
  LET heap == DestroyAll(
                Destroy(Destroy(Create(loop.heap, OutputHandle), OutputHandle),
                        EncoderHandle),
                loop.avifImages)
  IN  [ d |-> IF fin.result = "OK" THEN p
              ELSE [ p EXCEPT !.wallpaperWriterError = "EncoderError",
                              !.errorString = fin.result ],
        device |-> IF fin.result = "OK" THEN write(device, fin.output) ELSE device,
        trace |-> [ ran |-> TRUE, xmp |-> xmp, converted |-> loop.converted,
                    handed |-> loop.handed, accepted |-> loop.accepted,
                    finish |-> fin.result, heap |-> heap ] ]

\* The private flush that empties the image list once it has encoded it.
PrivateFlushConsuming(p, device, outcome, fault) ==
  LET xmp == serializeMetaData(p.metaData)
      loop == encodeFrames(p.images, xmp, outcome, Create(EmptyHeap, EncoderHandle))
      fin == avifEncoderFinish(loop.frames, fault)
      done == FinishFlush(p, device, xmp, loop, fin)
  IN  [ done EXCEPT !.d.images = << >> ]

\* KDynamicWallpaperWriterPrivate::flush(device).
PrivateFlush(p, device, outcome, fault) ==
  LET xmp == serializeMetaData(p.metaData)
      loop == encodeFrames(p.images, xmp, outcome, Create(EmptyHeap, EncoderHandle))
      fin == avifEncoderFinish(loop.frames, fault)
  IN  FinishFlush(p, device, xmp, loop, fin)

DeviceFailure(p, device, message) ==
  [ d |-> [ p EXCEPT !.wallpaperWriterError = "DeviceError", !.errorString = message ],
    device |-> device, ret |-> FALSE, trace |-> NoTrace ]

\* flush(QIODevice *) that answers with the encoder's result.
flushReportingEncoderError(p, device, outcome, fault) ==
  IF isOpen(device) /\ ~isWritable(device)
  THEN DeviceFailure(p, device, "The device is not open for writing")
  ELSE IF ~isOpen(device) /\ ~open(device).ok
  THEN DeviceFailure(p, open(device).device, open(device).device.errorString)
  ELSE LET opened == IF isOpen(device) THEN device ELSE open(device).device
           done == PrivateFlush(p, opened, outcome, fault)
       IN  [ d |-> done.d, device |-> done.device, ret |-> (done.trace.finish = "OK"),
             trace |-> done.trace ]

\* flush(QIODevice *) without the return of line 168.
flushMissingReturn(p, device, outcome, fault) ==
  IF ~isOpen(device) /\ ~open(device).ok
  THEN DeviceFailure(p, open(device).device, open(device).device.errorString)
  ELSE LET refused == isOpen(device) /\ ~isWritable(device)
           q == IF refused
                THEN DeviceFailure(p, device, "The device is not open for writing").d
                ELSE p
           opened == IF isOpen(device) THEN device ELSE open(device).device
           done == PrivateFlush(q, opened, outcome, fault)
       IN  [ d |-> done.d, device |-> done.device, ret |-> TRUE, trace |-> done.trace ]

\* KDynamicWallpaperWriter::flush(QIODevice *).
flush(p, device, outcome, fault) ==
  IF isOpen(device) /\ ~isWritable(device)
  THEN DeviceFailure(p, device, "The device is not open for writing")
  ELSE IF ~isOpen(device) /\ ~open(device).ok
  THEN DeviceFailure(p, open(device).device, open(device).device.errorString)
  ELSE LET opened == IF isOpen(device) THEN device ELSE open(device).device
           done == PrivateFlush(p, opened, outcome, fault)
       IN  [ d |-> done.d, device |-> done.device, ret |-> TRUE, trace |-> done.trace ]

\* KDynamicWallpaperWriter::flush(const QString &); the QFile is local.
flushFile(p, fs, fileName, outcome, fault) ==
  LET file == QFile(fs, fileName) IN
  IF ~open(file).ok
  THEN DeviceFailure(p, open(file).device, open(file).device.errorString)
  ELSE LET done == PrivateFlush(p, open(file).device, outcome, fault)
       IN  [ d |-> done.d, device |-> done.device, ret |-> TRUE, trace |-> done.trace ]

setMetaData(p, metaData) == [ p EXCEPT !.metaData = metaData ]

setImages(p, images) ==
  LET tmpImages == [ i \in 1..Len(images) |-> convertToFormat(images[i], "Format_RGB888") ]
  IN  [ p EXCEPT !.images = tmpImages ]

error(p) == p.wallpaperWriterError

errorString(p) == IF p.wallpaperWriterError = "NoError" THEN "No error" ELSE p.errorString

canWrite(device) == isWritable(device)

canWriteFile(fs, fileName) == isWritable(QFile(fs, fileName))

(***************************************************************************)
(* The inputs of the calls.                                                *)
(***************************************************************************)
SeqsUpTo(S, n) == UNION { [ 1..k -> S ] : k \in 0..n }

InputImages ==
  { [ id |-> 1, format |-> "Format_ARGB32" ], [ id |-> 2, format |-> "Format_RGB888" ] }

InputMetaData ==
  { MakeMetaData({}, "NoCrossFade", 0, 0, 0, 0),
    MakeMetaData({ "CrossFadeField", "IndexField" }, "CrossFade", 0, 0, 0, 12) }

\* The devices a caller can hand in: closed (openable or not) or open in a mode.
InputDevices ==
  { [ openMode |-> m, openable |-> o, errorString |-> "Unknown error", written |-> << >> ] :
      m \in SUBSET OpenModeFlag, o \in BOOLEAN } \
  { [ openMode |-> m, openable |-> FALSE, errorString |-> "Unknown error",
      written |-> << >> ] : m \in (SUBSET OpenModeFlag) \ { {} } }

FileNames == { "out.avif", "locked.avif" }

\* The files a caller can name: one that can be opened for writing and one
\* that cannot.
FileSystem == [ f \in FileNames |-> [ writable |-> (f = "out.avif") ] ]

EncoderFaults == { "none", "Out of memory" }

NoDevice == [ openMode |-> {}, openable |-> FALSE, errorString |-> "", written |-> << >> ]

Bool(b) == IF b THEN "true" ELSE "false"

\* The record of a call: the operation, its argument list (setters), its
\* destination before and after, what the codec did to each frame and at the
\* end (outcome, fault), the value returned and the trace of the private flush.
Call(op, dest, fileName, before, after, ret, trace) ==
  [ op |-> op, arg |-> << >>, dest |-> dest, fileName |-> fileName, before |-> before,
    device |-> after, outcome |-> << >>, fault |-> "none", ret |-> ret, trace |-> trace ]

\* What the first flush since the last setter call showed the encoder (the
\* pictures of the frames it built and the blocks they carried), and whether
\* another flush has followed.
NotPresented == [ flushed |-> FALSE, again |-> FALSE, pixels |-> << >>, blocks |-> {} ]

Shown(trace) ==
  [ pixels |-> [ k \in 1..Len(trace.converted) |-> trace.converted[k].pixels ],
    blocks |-> { trace.xmp } \cup { trace.converted[k].xmp : k \in 1..Len(trace.converted) } ]

Presented(before, trace) ==
  IF ~trace.ran THEN before
  ELSE IF before.flushed THEN [ before EXCEPT !.again = TRUE ]
  ELSE [ flushed |-> TRUE, again |-> FALSE, pixels |-> Shown(trace).pixels,
         blocks |-> Shown(trace).blocks ]

\* No call is in progress and the last result has been taken.
NoCall == Call("none", "none", "", NoDevice, NoDevice, "void", NoTrace)

\* The handles that stay allocated after a call.
LiveAfter(before, heap) ==
  (before \cup { heap.created[i] : i \in 1..Len(heap.created) })
    \ { heap.destroyed[i] : i \in 1..Len(heap.destroyed) }

\* The pre-flight test of flush(QIODevice *) passes for this device.
Opens(device) == isWritable(device) \/ (~isOpen(device) /\ device.openable)

\* The encoder-side choices of a flush; one is enough when the encoder is
\* never reached.
FrameOutcomes(images, reached) ==
  IF reached THEN [ 1..Len(images) -> FrameOutcome ]
  ELSE { [ i \in 1..Len(images) |-> "ok" ] }

Faults(reached) == IF reached THEN EncoderFaults ELSE { "none" }

(***************************************************************************)
(* State: the writer's private object d, the libavif handles still         *)
(* allocated, the record of the call that has just returned (NoCall once   *)
(* the caller has gone on; it holds the destination as the call left it),  *)
(* and what the first flush since the last setter call showed the encoder. *)
(***************************************************************************)
VARIABLES d, live, lastCall, presented

vars == << d, live, lastCall, presented >>

Init ==
  /\ d = KDynamicWallpaperWriterPrivate
  /\ live = {}
  /\ lastCall = NoCall
  /\ presented = NotPresented

SetMetaData ==
  /\ lastCall = NoCall
  /\ \E metaData \in SeqsUpTo(InputMetaData, MaxLen) :
       /\ d' = setMetaData(d, metaData)
       /\ lastCall' = [ Call("setMetaData", "none", "", NoDevice, NoDevice, "void", NoTrace)
                          EXCEPT !.arg = metaData ]
       /\ presented' = NotPresented
       /\ UNCHANGED live

SetImages ==
  /\ lastCall = NoCall
  /\ \E images \in SeqsUpTo(InputImages, MaxLen) :
       /\ d' = setImages(d, images)
       /\ lastCall' = [ Call("setImages", "none", "", NoDevice, NoDevice, "void", NoTrace)
                          EXCEPT !.arg = images ]
       /\ presented' = NotPresented
       /\ UNCHANGED live

FlushDevice ==
  /\ lastCall = NoCall
  /\ \E device \in InputDevices :
       \E fault \in Faults(Opens(device)),
          outcome \in FrameOutcomes(d.images, Opens(device)) :
         \E r \in { flush(d, device, outcome, fault) } :
           /\ d' = r.d
           /\ live' = LiveAfter(live, r.trace.heap)
           /\ lastCall' = [ Call("flush", "device", "", device, r.device, Bool(r.ret),
                                 r.trace)
                              EXCEPT !.outcome = outcome, !.fault = fault ]
           /\ presented' = Presented(presented, r.trace)


FlushFile ==
  /\ lastCall = NoCall
  /\ \E fileName \in FileNames :
       \E fault \in Faults(FileSystem[fileName].writable),
          outcome \in FrameOutcomes(d.images, FileSystem[fileName].writable) :
         \E r \in { flushFile(d, FileSystem, fileName, outcome, fault) } :
           /\ d' = r.d
           /\ live' = LiveAfter(live, r.trace.heap)
           /\ lastCall' = [ Call("flush", "file", fileName, QFile(FileSystem, fileName),
                                 r.device, Bool(r.ret), r.trace)
                              EXCEPT !.outcome = outcome, !.fault = fault ]
           /\ presented' = Presented(presented, r.trace)

CanWriteDevice ==
  /\ lastCall = NoCall
  /\ \E device \in InputDevices :
       /\ lastCall' = Call("canWrite", "device", "", device, device,
                           Bool(canWrite(device)), NoTrace)
       /\ UNCHANGED << d, live, presented >>

CanWriteFile ==
  /\ lastCall = NoCall
  /\ \E fileName \in FileNames :
       /\ lastCall' = Call("canWrite", "file", fileName, QFile(FileSystem, fileName),
                           QFile(FileSystem, fileName), Bool(canWriteFile(FileSystem, fileName)), NoTrace)
       /\ UNCHANGED << d, live, presented >>

Error ==
  /\ lastCall = NoCall
  /\ lastCall' = Call("error", "none", "", NoDevice, NoDevice, error(d), NoTrace)
  /\ UNCHANGED << d, live, presented >>

ErrorString ==
  /\ lastCall = NoCall
  /\ lastCall' = Call("errorString", "none", "", NoDevice, NoDevice, errorString(d), NoTrace)
  /\ UNCHANGED << d, live, presented >>

\* The caller takes the result of the call and goes on.
Return ==
  /\ lastCall # NoCall
  /\ lastCall' = NoCall
  /\ UNCHANGED << d, live, presented >>

Next ==
  \/ SetMetaData
  \/ SetImages
  \/ FlushDevice
  \/ FlushFile
  \/ CanWriteDevice
  \/ CanWriteFile
  \/ Error
  \/ ErrorString
  \/ Return

Spec == Init /\ [][Next]_vars

(***************************************************************************)
(* Reading a metadata block back: take the payload out of the template,    *)
(* decode base64, parse the JSON text.  Used to state what a reader of the *)
(* container finds.                                                        *)
(***************************************************************************)
Base64Index == [ c \in { Base64Alphabet[i] : i \in 1..64 } |->
                   (CHOOSE i \in 1..64 : Base64Alphabet[i] = c) - 1 ]

RECURSIVE FromBase64(_)
FromBase64(s) ==
  IF Len(s) < 4 THEN << >>
  ELSE
    LET a == Base64Index[s[1]]
        b == Base64Index[s[2]]
        first == Chr(a * 4 + b \div 16)
    IN  IF s[3] = "=" THEN << first >>
        ELSE LET c == Base64Index[s[3]]
                 second == Chr((b % 16) * 16 + c \div 4)
             IN  IF s[4] = "=" THEN << first, second >>
                 ELSE << first, second, Chr((c % 4) * 64 + Base64Index[s[4]]) >>
                        \o FromBase64(SubSeq(s, 5, Len(s)))

\* The bytes between the template's prefix and suffix.
Payload(xmp) ==
  SubSeq(xmp, Len(TemplatePrefix) + 1, Len(xmp) - Len(TemplateSuffix))

InTemplate(xmp) ==
  /\ Len(xmp) >= Len(TemplatePrefix) + Len(TemplateSuffix)
  /\ SubSeq(xmp, 1, Len(TemplatePrefix)) = TemplatePrefix
  /\ SubSeq(xmp, Len(xmp) - Len(TemplateSuffix) + 1, Len(xmp)) = TemplateSuffix

\* The pieces of s between occurrences of the byte sep.
Split(s, sep) ==
  LET cuts == << 0 >> \o SelectSeq([ i \in 1..Len(s) |-> i ], LAMBDA i : s[i] = sep)
                     \o << Len(s) + 1 >>
  IN  [ k \in 1..(Len(cuts) - 1) |-> SubSeq(s, cuts[k] + 1, cuts[k + 1] - 1) ]

RECURSIVE ParseNat(_, _)
ParseNat(s, n) ==
  IF s = << >> THEN n
  ELSE ParseNat(Tail(s), n * 10 + (Ord(Head(s)) - Ord("0")))

ParseValue(s) ==
  IF s = << "t", "r", "u", "e" >> THEN JsonBool(TRUE)
  ELSE IF s = << "f", "a", "l", "s", "e" >> THEN JsonBool(FALSE)
  ELSE IF Head(s) = "-" THEN JsonNumber(0 - ParseNat(Tail(s), 0))
  ELSE JsonNumber(ParseNat(s, 0))

\* "key":value
ParsePair(s) ==
  LET parts == Split(s, ":")
      name == SubSeq(parts[1], 2, Len(parts[1]) - 1)
  IN  [ key |-> CHOOSE k \in { JsonKeys[i] : i \in 1..Len(JsonKeys) } : KeyBytes(k) = name,
        value |-> ParseValue(parts[2]) ]

\* {pair,pair,...} without the braces
ParseObject(s) ==
  IF s = << >> THEN [ k \in {} |-> JsonBool(FALSE) ]
  ELSE LET parts == Split(s, ",")
           pairs == [ i \in 1..Len(parts) |-> ParsePair(parts[i]) ]
       IN  [ k \in { pairs[i].key : i \in 1..Len(pairs) } |->
               (CHOOSE q \in { pairs[i] : i \in 1..Len(pairs) } : q.key = k).value ]

\* The objects of the text [{...},{...}]: every object ends at a "}".
ParseJson(s) ==
  LET inner == SubSeq(s, 2, Len(s) - 1)
      parts == Split(inner, "}")
      body(i) == IF i = 1 THEN Tail(parts[i]) ELSE Tail(Tail(parts[i]))
  IN  IF inner = << >> THEN << >>
      ELSE [ i \in 1..(Len(parts) - 1) |-> ParseObject(body(i)) ]

DecodeMetaData(xmp) == ParseJson(FromBase64(Payload(xmp)))

(***************************************************************************)
(* Properties.                                                             *)
(***************************************************************************)
IsFlush(call) == call.op = "flush"

\* Step 1 of flush cannot make the destination writable: a handle that is
\* open but not for writing, or a closed handle or a path whose open fails.
Unwritable(call) ==
  \/ isOpen(call.before) /\ ~isWritable(call.before)
  \/ ~isOpen(call.before) /\ ~call.before.openable

\* The flush wrote a container.
Wrote(call) == IsFlush(call) /\ call.trace.finish = "OK" /\ call.device.written # << >>

\* The metadata blocks of the frames of the container a flush wrote.
WrittenBlocks(call) ==
  { call.device.written[1].frames[k].xmp : k \in 1..Len(call.device.written[1].frames) }

ArrayOf(metaData) == [ i \in 1..Len(metaData) |-> toJson(metaData[i]) ]

\* The shape of the writer's state.
TypeOK ==
  /\ d.wallpaperWriterError \in WallpaperWriterError
  /\ \A i \in 1..Len(d.images) : d.images[i].format = "Format_RGB888"
  /\ \A i \in 1..Len(d.metaData) :
       /\ fields(d.metaData[i]) \subseteq MetaDataField
       /\ d.metaData[i].crossFadeMode \in CrossFadeMode
  /\ lastCall.outcome \in [ 1..Len(lastCall.outcome) -> FrameOutcome ]

Count(seq, x) == Cardinality({ i \in 1..Len(seq) : seq[i] = x })

Range(seq) == { seq[i] : i \in 1..Len(seq) }

\* C1: after a flush that opened its destination and whose finalize step
\* succeeded, error() is NoError and errorString() is "No error", whatever
\* an earlier flush left behind.
C1_SuccessfulFlushResetsError ==
  (IsFlush(lastCall) /\ lastCall.trace.ran /\ lastCall.trace.finish = "OK")
    => (error(d) = "NoError" /\ errorString(d) = "No error")

\* C2: flush (either overload) returns false exactly when step 1 could not
\* make the destination writable; in particular it returns true when the
\* encoder's finalize step fails.
C2_FlushFalseIffUnwritable ==
  IsFlush(lastCall) =>
    /\ (lastCall.ret = "false") <=> Unwritable(lastCall)
    /\ lastCall.ret \in { "true", "false" }
    /\ (lastCall.trace.ran /\ lastCall.trace.finish # "OK") => lastCall.ret = "true"

C2_Witness ==
  /\ IsFlush(lastCall)
  /\ lastCall.trace.ran
  /\ lastCall.trace.finish = "Out of memory"
  /\ lastCall.ret = "true"

\* C3: a flush whose step 1 fails sets DeviceError, writes nothing to the
\* destination (handle or file) and starts no encoding work: no encoder or
\* image is created, no frame is converted or handed over.
C3_DeviceFailureDoesNothing ==
  [][ (IsFlush(lastCall') /\ Unwritable(lastCall')) =>
        /\ lastCall'.ret = "false"
        /\ error(d') = "DeviceError"
        /\ lastCall'.device.written = << >>
        /\ lastCall'.device.openMode = lastCall'.before.openMode
        /\ ~lastCall'.trace.ran
        /\ lastCall'.trace.heap.created = << >>
        /\ lastCall'.trace.converted = << >>
        /\ lastCall'.trace.handed = << >>
        /\ lastCall'.trace.accepted = << >>
        /\ live' = live ]_vars

C3_Witness ==
  /\ IsFlush(lastCall)
  /\ isOpen(lastCall.before)
  /\ lastCall.before.openMode = { "ReadOnly" }
  /\ lastCall.ret = "false"
  /\ Len(d.images) = MaxLen

\* C4 as claimed: the array in the metadata block of a written container has
\* as many elements as the writer stores images, element i being toJson()
\* of the metadata record at position i.
C4_ArrayMatchesImages ==
  Wrote(lastCall) =>
    \A block \in WrittenBlocks(lastCall) :
      /\ Len(DecodeMetaData(block)) = Len(d.images)
      /\ \A i \in 1..Len(d.images) : DecodeMetaData(block)[i] = toJson(d.metaData[i])

\* C4 amended: the array in the metadata block of a written container has
\* as many elements as the writer stores metadata records, element i being
\* toJson() of metaData[i]; its length is the number of stored images when
\* the two lists have the same length.
C4_ArrayMatchesMetaData ==
  Wrote(lastCall) =>
    \A block \in WrittenBlocks(lastCall) :
      /\ InTemplate(block)
      /\ DecodeMetaData(block) = ArrayOf(d.metaData)
      /\ Len(DecodeMetaData(block)) = Len(d.metaData)
      /\ Len(d.metaData) = Len(d.images) => Len(DecodeMetaData(block)) = Len(d.images)

C4_Witness ==
  /\ Wrote(lastCall)
  /\ Len(d.metaData) = 2
  /\ d.metaData[1] # d.metaData[2]
  /\ ~isValid(d.metaData[1])
  /\ Len(d.images) = 1

\* C5: when flush returns, every encoder, image and output buffer created
\* during the call has been released exactly once and nothing else has, on
\* every exit path; no handle stays allocated between calls.
C5_EveryHandleReleasedOnce ==
  /\ live = {}
  /\ IsFlush(lastCall) =>
       LET heap == lastCall.trace.heap IN
         /\ \A h \in Range(heap.created) :
              Count(heap.created, h) = 1 /\ Count(heap.destroyed, h) = 1
         /\ Range(heap.destroyed) \subseteq Range(heap.created)
         /\ IF lastCall.trace.ran
            THEN Range(heap.created) =
                   { EncoderHandle, OutputHandle }
                     \cup { ImageHandle(i) : i \in 1..Len(d.images) }
            ELSE heap.created = << >>

C5_Witness ==
  /\ IsFlush(lastCall)
  /\ lastCall.trace.ran
  /\ lastCall.outcome = << "convertFailed", "ok" >>
  /\ lastCall.trace.finish = "Out of memory"

\* The positions of a call's images that met the given outcomes, in order.
Positions(call, outcomes) ==
  SelectSeq([ i \in 1..Len(call.outcome) |-> i ], LAMBDA i : call.outcome[i] \in outcomes)

PixelsAt(images, positions) == [ k \in 1..Len(positions) |-> images[positions[k]] ]

PixelsOf(frames) == [ k \in 1..Len(frames) |-> frames[k].pixels ]

\* C6: in a flush that opened its destination, a frame whose conversion or
\* hand-off fails sets no error and does not stop the loop: every stored
\* image is converted, every converted one is handed over, the encoder
\* accepts exactly those for which both succeeded, in input order, and the
\* error state changes only if the finalize step fails.
C6_FrameFailuresAreSkipped ==
  [][ (IsFlush(lastCall') /\ lastCall'.trace.ran) =>
        /\ PixelsOf(lastCall'.trace.converted) = d.images
        /\ lastCall'.trace.handed = Positions(lastCall', { "ok", "addFailed" })
        /\ lastCall'.trace.accepted = Positions(lastCall', { "ok" })
        /\ lastCall'.trace.finish = "OK" =>
             PixelsOf(lastCall'.device.written[1].frames)
               = PixelsAt(d.images, Positions(lastCall', { "ok" }))
        /\ lastCall'.trace.finish = "OK" =>
             /\ error(d') = error(d)
             /\ errorString(d') = errorString(d)
        /\ lastCall'.trace.finish # "OK" =>
             \/ lastCall'.trace.accepted = << >>
             \/ lastCall'.fault # "none" ]_vars

C6_Witness ==
  /\ IsFlush(lastCall)
  /\ lastCall.trace.ran
  /\ lastCall.outcome \in { << "convertFailed", "ok" >>, << "addFailed", "ok" >> }
  /\ lastCall.trace.finish = "OK"
  /\ error(d) = "NoError"
  /\ lastCall.trace.accepted = << 2 >>
  /\ PixelsOf(lastCall.device.written[1].frames) = << d.images[2] >>

C8_CanWriteIffWritable ==
  [][ (lastCall'.op = "canWrite") =>
        /\ (lastCall'.ret = "true") <=>
             IF lastCall'.dest = "file" THEN FileSystem[lastCall'.fileName].writable
             ELSE isWritable(lastCall'.before)
        /\ lastCall'.device = lastCall'.before
        /\ UNCHANGED << d, live >> ]_vars

\* C9: within one flush every frame that is converted or handed to the
\* encoder carries the same block, built from the whole metadata list in
\* order: records that are not valid and records whose frame is dropped are
\* in it.
C9_EveryFrameCarriesTheWholeBlock ==
  (IsFlush(lastCall) /\ lastCall.trace.ran) =>
    /\ \A frame \in Range(lastCall.trace.converted) : frame.xmp = lastCall.trace.xmp
    /\ Range(lastCall.trace.handed) \subseteq 1..Len(lastCall.trace.converted)
    /\ Wrote(lastCall) => WrittenBlocks(lastCall) = { lastCall.trace.xmp }
    /\ InTemplate(lastCall.trace.xmp)
    /\ DecodeMetaData(lastCall.trace.xmp) = ArrayOf(d.metaData)

C9_Witness ==
  /\ IsFlush(lastCall)
  /\ lastCall.trace.ran
  /\ Len(d.metaData) = MaxLen
  /\ \E i \in 1..Len(d.metaData) : ~isValid(d.metaData[i])
  /\ Len(lastCall.trace.converted) = MaxLen
  /\ Len(lastCall.trace.accepted) = 1

\* C10: images and metaData change only through their setters, each of which
\* replaces its own list by its argument and leaves the other list and the
\* error state alone; flush, canWrite, error() and errorString() leave both
\* lists as they are, and a flush that follows another with no setter call
\* in between shows the encoder the same frames and the same block.
C10_OnlySettersChangeTheLists ==
  [][ /\ lastCall'.op \notin { "setImages", "setMetaData" } =>
           /\ d'.images = d.images
           /\ d'.metaData = d.metaData
      /\ lastCall'.op = "setImages" =>
           /\ d'.images = [ i \in 1..Len(lastCall'.arg) |->
                              [ id |-> lastCall'.arg[i].id, format |-> "Format_RGB888" ] ]
           /\ d'.metaData = d.metaData
           /\ error(d') = error(d) /\ errorString(d') = errorString(d)
      /\ lastCall'.op = "setMetaData" =>
           /\ d'.metaData = lastCall'.arg
           /\ d'.images = d.images
           /\ error(d') = error(d) /\ errorString(d') = errorString(d)
      /\ (IsFlush(lastCall') /\ lastCall'.trace.ran /\ presented.flushed) =>
           /\ Shown(lastCall'.trace).pixels = presented.pixels
           /\ Shown(lastCall'.trace).blocks = presented.blocks ]_vars

\* A second flush has run after a first one that ended in EncoderError.
C10_Witness ==
  /\ IsFlush(lastCall)
  /\ lastCall.trace.ran
  /\ presented.again
  /\ error(d) = "EncoderError"
  /\ lastCall.trace.finish = "OK"
  /\ Len(d.images) = MaxLen
  /\ Len(d.metaData) = MaxLen

====
